---------------------------- MODULE Spec2Model ----------------------------
(***************************************************************************)
(* The council-spending notebook (1_scrape_and_clean_data.ipynb) as a      *)
(* state machine.  The state is what the notebook's cells share: the       *)
(* staging directory "csv_files original scrape/", the working directory   *)
(* "csv_files/", the two output files and what the cells print.  One       *)
(* action per cell; the two cells whose loop can be cut short between two   *)
(* iterations (the download loop, the rename loop) advance one iteration   *)
(* per step.                                                               *)
(*                                                                         *)
(* Text is a sequence of code points, so that the Latin-1 / UTF-8          *)
(* conversions of read_csv and to_csv are computed, not assumed.  A file   *)
(* name is the sequence of the code points of its characters.              *)
(***************************************************************************)
EXTENDS Integers, Sequences, FiniteSets, TLC

VARIABLES
    dir,          \* csv_files/ : file name -> file on disk
    pc,           \* "idle", "rename" while the rename loop runs, "exited" after SystemExit
    file_list,    \* rename cell: natsorted(os.listdir(DIRECTORY))
    start_month,  \* rename cell
    start_year,   \* rename cell
    pos,          \* rename cell: iterations of its loop done
    anchor,       \* rename cell: the <<year, month>> its first two lines set
    orig,         \* history: the working directory as it was at the start
    renamed,      \* history: <<old name, new name>> of every os.rename of the current run
    flagged,      \* normalization cell: the file names it printed in its last run
    inserted,     \* history: inodes that got a 'Pay Date' column from the normalization cell
    normRuns,     \* how often the normalization cell has run
    vreport,      \* column check cell: what its last run printed
    combined,     \* bristol_spending_data.csv
    final,        \* bristol_spending_data_final.csv
    runs,         \* how many cells have been started
    links,        \* download cell: what requests.get does for each link
    k,            \* download cell: links handled so far
    i,            \* download cell: the counter naming the next file
    staging,      \* "csv_files original scrape/" : file name -> bytes
    errors,       \* download cell: the links named in an error message
    cell,         \* clean_text: the value it is applied to
    cleaned       \* clean_text: its result

vars == <<dir, pc, file_list, start_month, start_year, pos, anchor, orig, renamed, flagged, inserted,
          normRuns, vreport, combined, final, runs, links, k, i, staging,
          errors, cell, cleaned>>

pipeVars == <<dir, pc, file_list, start_month, start_year, pos, anchor, orig, renamed, flagged, inserted,
              normRuns, vreport, combined, final, runs>>
fetchVars == <<links, k, i, staging, errors>>
textVars == <<cell, cleaned>>

-----------------------------------------------------------------------------
(* Bounds *)
MaxFiles == 2
MaxRuns == 3
MaxNumbered == 3
MaxNumber == 10
MaxLinks == 4
MaxStrLen == 3

-----------------------------------------------------------------------------
(* Sequences *)
Range(s) == {s[j] : j \in DOMAIN s}

RECURSIVE SeqSum(_)
SeqSum(s) == IF s = <<>> THEN 0 ELSE Head(s) + SeqSum(Tail(s))

\* the first position of x in s, 0 when it has none
IndexOf(s, x) ==
    IF x \in Range(s)
    THEN CHOOSE j \in DOMAIN s : s[j] = x /\ \A h \in 1..(j - 1) : s[h] # x
    ELSE 0

\* insert x so that it becomes element number p (0-based) of the result
InsertAt(s, p, x) == SubSeq(s, 1, p) \o <<x>> \o SubSeq(s, p + 1, Len(s))

\* the orders in which a finite set can be listed
Orders(S) == {s \in [1..Cardinality(S) -> S] : Range(s) = S}

-----------------------------------------------------------------------------
(* Text: str(n), f-strings, file names *)
IsDigit(c) == c \in 48..57

RECURSIVE Str(_)
Str(n) == IF n < 10 THEN <<48 + n>> ELSE Str(n \div 10) \o <<48 + (n % 10)>>

CsvExt == <<46, 99, 115, 118>>

NumberedName(n) == Str(n) \o CsvExt

Label(year, month) == Str(year) \o <<45>> \o Str(month) \o CsvExt

EndsWithCsv(name) ==
    /\ Len(name) >= Len(CsvExt)
    /\ SubSeq(name, Len(name) - Len(CsvExt) + 1, Len(name)) = CsvExt

\* os.path.splitext(name)[0] of a name with one dot, not leading
RECURSIVE LastDot(_)
LastDot(name) ==
    IF name = <<>> THEN 0
    ELSE IF name[Len(name)] = 46 THEN Len(name)
    ELSE LastDot(SubSeq(name, 1, Len(name) - 1))

Stem(name) == IF LastDot(name) <= 1 THEN name ELSE SubSeq(name, 1, LastDot(name) - 1)

-----------------------------------------------------------------------------
(* sorted(): strings compared code point by code point *)
RECURSIVE StrLess(_, _)
StrLess(a, b) ==
    IF b = <<>> THEN FALSE
    ELSE IF a = <<>> THEN TRUE
    ELSE IF Head(a) # Head(b) THEN Head(a) < Head(b)
    ELSE StrLess(Tail(a), Tail(b))

RECURSIVE InsertSorted(_, _)
InsertSorted(x, s) ==
    IF s = <<>> THEN <<x>>
    ELSE IF StrLess(x, Head(s)) THEN <<x>> \o s
    ELSE <<Head(s)>> \o InsertSorted(x, Tail(s))

RECURSIVE sorted(_)
sorted(s) == IF s = <<>> THEN <<>> ELSE InsertSorted(s[Len(s)], sorted(SubSeq(s, 1, Len(s) - 1)))

-----------------------------------------------------------------------------
(* natsorted(): the key of a string is its runs of digits, as numbers, and *)
(* the text between them, as text; keys are compared item by item.         *)
RECURSIVE DigitRun(_)
DigitRun(s) == IF s # <<>> /\ IsDigit(Head(s)) THEN 1 + DigitRun(Tail(s)) ELSE 0

RECURSIVE TextRun(_)
TextRun(s) == IF s # <<>> /\ ~IsDigit(Head(s)) THEN 1 + TextRun(Tail(s)) ELSE 0

RECURSIVE ToInt(_)
ToInt(ds) == IF ds = <<>> THEN 0 ELSE 10 * ToInt(SubSeq(ds, 1, Len(ds) - 1)) + (ds[Len(ds)] - 48)

RECURSIVE NatKey(_)
NatKey(s) ==
    IF s = <<>> THEN <<>>
    ELSE IF IsDigit(Head(s))
         THEN <<[num |-> TRUE, n |-> ToInt(SubSeq(s, 1, DigitRun(s))), t |-> <<>>]>>
              \o NatKey(SubSeq(s, DigitRun(s) + 1, Len(s)))
         ELSE <<[num |-> FALSE, n |-> 0, t |-> SubSeq(s, 1, TextRun(s))]>>
              \o NatKey(SubSeq(s, TextRun(s) + 1, Len(s)))

\* a key starts with text: the empty text when the string starts with a digit
NatKeyOf(s) ==
    IF s # <<>> /\ IsDigit(Head(s))
    THEN <<[num |-> FALSE, n |-> 0, t |-> <<>>]>> \o NatKey(s)
    ELSE NatKey(s)

ItemLess(a, b) == IF a.num /\ b.num THEN a.n < b.n ELSE StrLess(a.t, b.t)

RECURSIVE KeyLess(_, _)
KeyLess(a, b) ==
    IF b = <<>> THEN FALSE
    ELSE IF a = <<>> THEN TRUE
    ELSE IF Head(a) # Head(b) THEN ItemLess(Head(a), Head(b))
    ELSE KeyLess(Tail(a), Tail(b))

LexLess(a, b) == StrLess(a, b)

NatLess(a, b) == KeyLess(NatKeyOf(a), NatKeyOf(b))

\* a sort that compares the names as plain text
natsorted_Lexicographic(s) == sorted(s)

RECURSIVE InsertNatsorted(_, _)
InsertNatsorted(x, s) ==
    IF s = <<>> THEN <<x>>
    ELSE IF NatLess(x, Head(s)) THEN <<x>> \o s
    ELSE <<Head(s)>> \o InsertNatsorted(x, Tail(s))

RECURSIVE natsorted(_)
natsorted(s) ==
    IF s = <<>> THEN <<>>
    ELSE InsertNatsorted(s[Len(s)], natsorted(SubSeq(s, 1, Len(s) - 1)))

-----------------------------------------------------------------------------
(* Encodings.  read_csv(encoding='latin') maps each byte to the character  *)
(* with that code point; to_csv and read_csv without an encoding use       *)
(* UTF-8, here for code points below 2048 (one or two bytes).              *)
RECURSIVE Utf8Encode(_)
Utf8Encode(text) ==
    IF text = <<>> THEN <<>>
    ELSE (IF Head(text) < 128 THEN <<Head(text)>>
          ELSE <<192 + (Head(text) \div 64), 128 + (Head(text) % 64)>>)
         \o Utf8Encode(Tail(text))

RECURSIVE Utf8Valid(_)
Utf8Valid(bytes) ==
    IF bytes = <<>> THEN TRUE
    ELSE IF Head(bytes) < 128 THEN Utf8Valid(Tail(bytes))
    ELSE /\ Head(bytes) \in 194..223
         /\ Len(bytes) >= 2
         /\ bytes[2] \in 128..191
         /\ Utf8Valid(Tail(Tail(bytes)))

RECURSIVE Utf8Decode(_)
Utf8Decode(bytes) ==
    IF bytes = <<>> THEN <<>>
    ELSE IF Head(bytes) < 128 THEN <<Head(bytes)>> \o Utf8Decode(Tail(bytes))
    ELSE <<(Head(bytes) - 192) * 64 + (bytes[2] - 128)>> \o Utf8Decode(Tail(Tail(bytes)))

LatinDecode(bytes) == bytes

Decode(bytes, encoding) == IF encoding = "latin" THEN LatinDecode(bytes) ELSE Utf8Decode(bytes)

-----------------------------------------------------------------------------
(* Data frames.  A file on disk is [ino, cols, rows]: its inode, its       *)
(* header and its rows of cells, each cell the bytes between two commas.   *)
(* A data frame is [cols, rows] with typed cells: text, number or NaN.     *)
StrCell(text) == [t |-> "str", v |-> text]
NumCell(n) == [t |-> "num", v |-> <<n>>]
NaN == [t |-> "nan", v |-> <<>>]

IsNumber(bytes) == bytes # <<>> /\ \A j \in DOMAIN bytes : IsDigit(bytes[j])

\* a column is numeric when every cell that is not empty is a number
NumericColumn(rows, c) == \A r \in DOMAIN rows : rows[r][c] = <<>> \/ IsNumber(rows[r][c])

ParseCell(bytes, numeric, encoding) ==
    IF bytes = <<>> THEN NaN
    ELSE IF numeric THEN NumCell(ToInt(bytes))
    ELSE StrCell(Decode(bytes, encoding))

Decodable(file, encoding) ==
    encoding = "latin" \/ \A r \in DOMAIN file.rows : \A c \in DOMAIN file.rows[r] :
                              Utf8Valid(file.rows[r][c])

read_csv(file, encoding) ==
    [cols |-> file.cols,
     rows |-> [r \in DOMAIN file.rows |->
                 [c \in DOMAIN file.rows[r] |->
                    ParseCell(file.rows[r][c], NumericColumn(file.rows, c), encoding)]]]

FormatCell(x) ==
    IF x.t = "nan" THEN <<>>
    ELSE IF x.t = "num" THEN Str(x.v[1])
    ELSE Utf8Encode(x.v)

\* df.to_csv(path, index=False) over the file with inode ino
to_csv(df, ino) ==
    [ino |-> ino,
     cols |-> df.cols,
     rows |-> [r \in DOMAIN df.rows |-> [c \in DOMAIN df.rows[r] |-> FormatCell(df.rows[r][c])]]]

-----------------------------------------------------------------------------
(* The normalization cell, for one file *)
ANCHOR_MONTH == 2
ANCHOR_YEAR == 2023
PAY_DATE_INDEX == 2
EXPECTED_COLUMNS == 6

rename_columns == << <<"Name", "Supplier">>,
                     <<"Description Line 1", "Description 1">>,
                     <<"Description Line 2", "Description 2">>,
                     <<"Description Line 3", "Description 3">> >>

del_columns == <<"Body", "Body Name", "Transaction Number", "Ref",
                 "Unnamed: 8", "Unnamed: 9", "Unnamed: 0">>

\* df.rename(columns={key: value})
RenameColumn(df, key, value) ==
    [df EXCEPT !.cols = [c \in DOMAIN df.cols |-> IF df.cols[c] = key THEN value ELSE df.cols[c]]]

RECURSIVE RenameAll(_, _)
RenameAll(df, table) ==
    IF table = <<>> THEN df
    ELSE RenameAll(IF Head(table)[1] \in Range(df.cols)
                   THEN RenameColumn(df, Head(table)[1], Head(table)[2])
                   ELSE df,
                   Tail(table))

\* df.insert(loc, column, value): the same value in every row
InsertColumn(df, loc, column, value) ==
    [cols |-> InsertAt(df.cols, loc, column),
     rows |-> [r \in DOMAIN df.rows |-> InsertAt(df.rows[r], loc, value)]]

WithoutIndex(s, p) == SubSeq(s, 1, p - 1) \o SubSeq(s, p + 1, Len(s))

\* df.drop(columns=[name])
DropColumn(df, name) ==
    [cols |-> WithoutIndex(df.cols, IndexOf(df.cols, name)),
     rows |-> [r \in DOMAIN df.rows |-> WithoutIndex(df.rows[r], IndexOf(df.cols, name))]]

RECURSIVE DropAll(_, _)
DropAll(df, names) ==
    IF names = <<>> THEN df
    ELSE DropAll(IF Head(names) \in Range(df.cols) THEN DropColumn(df, Head(names)) ELSE df,
                 Tail(names))

NeedsPayDate(df) == "Pay Date" \notin Range(df.cols)

\* the column is put where the dated files have it
WithPayDate_AtFour(df, filename) ==
    IF NeedsPayDate(df)
    THEN InsertColumn(df, 4, "Pay Date", StrCell(Stem(filename)))
    ELSE df

\* the date of the file name is written over the dates the file has
WithPayDate_Overwrites(df, filename) ==
    IF NeedsPayDate(df)
    THEN InsertColumn(df, PAY_DATE_INDEX, "Pay Date", StrCell(Stem(filename)))
    ELSE [cols |-> df.cols,
          rows |-> [r \in DOMAIN df.rows |->
                      [c \in DOMAIN df.cols |->
                         IF df.cols[c] = "Pay Date" THEN StrCell(Stem(filename))
                         ELSE df.rows[r][c]]]]

WithPayDate(df, filename) ==
    IF NeedsPayDate(df)
    THEN InsertColumn(df, PAY_DATE_INDEX, "Pay Date", StrCell(Stem(filename)))
    ELSE df

\* the data frame the cell holds for a file when it reaches the column count check
NormalizedFrame(filename, file) ==
    DropAll(WithPayDate(RenameAll(read_csv(file, "latin"), rename_columns), filename),
            del_columns)

\* a check of the names and their order, not of the count
Flags_Canonical(df) ==
    df.cols # <<"Supplier", "Description 1", "Description 2", "Description 3", "Pay Date", "Amount">>

\* if len(df.columns) != 6: print(filename)
Flags(df) == Len(df.cols) # EXPECTED_COLUMNS

\* a flagged file is left as it was
NormalizedFile_SkipsFlagged(filename, file) ==
    IF Flags(NormalizedFrame(filename, file))
    THEN file
    ELSE to_csv(NormalizedFrame(filename, file), file.ino)

\* the file the cell writes back
NormalizedFile(filename, file) == to_csv(NormalizedFrame(filename, file), file.ino)

-----------------------------------------------------------------------------
(* The column check cell.  exit() raises SystemExit when the cells run as  *)
(* a script; in a notebook kernel it only asks the kernel to shut down     *)
(* once the cell is over, and the loop goes on.  Both are possible.        *)
ExitModes == {"raises", "deferred"}

NotRun == [ran |-> FALSE, mismatches |-> <<>>, success |-> FALSE, raised |-> FALSE]

RECURSIVE CheckRest(_, _, _, _, _)
CheckRest(d, files, column_names, mode, printed) ==
    IF files = <<>>
    THEN [ran |-> TRUE, mismatches |-> printed, success |-> TRUE, raised |-> FALSE]
    ELSE IF ~Decodable(d[Head(files)], "utf-8")
    THEN [ran |-> TRUE, mismatches |-> printed, success |-> FALSE, raised |-> TRUE]
    ELSE IF read_csv(d[Head(files)], "utf-8").cols # column_names
    THEN IF mode = "raises"
         THEN [ran |-> TRUE, mismatches |-> Append(printed, Head(files)),
               success |-> FALSE, raised |-> FALSE]
         ELSE CheckRest(d, Tail(files), column_names, mode, Append(printed, Head(files)))
    ELSE CheckRest(d, Tail(files), column_names, mode, printed)

column_check(d, csv_files, mode) ==
    IF csv_files = <<>> \/ ~Decodable(d[csv_files[1]], "utf-8")
    THEN [ran |-> TRUE, mismatches |-> <<>>, success |-> FALSE, raised |-> TRUE]
    ELSE CheckRest(d, Tail(csv_files), read_csv(d[csv_files[1]], "utf-8").cols, mode, <<>>)

-----------------------------------------------------------------------------
(* The combine cell *)
Absent == [ino |-> 0, cols |-> <<>>, rows |-> <<>>, exists |-> FALSE]

RECURSIVE UnionColumns(_)
UnionColumns(dfs) ==
    IF dfs = <<>> THEN <<>>
    ELSE LET rest == UnionColumns(SubSeq(dfs, 1, Len(dfs) - 1))
         IN  rest \o SelectSeq(dfs[Len(dfs)].cols, LAMBDA c : c \notin Range(rest))

\* the rows of df under the column list cols: NaN where df has no such column
Reindexed(df, cols) ==
    [r \in DOMAIN df.rows |->
       [c \in DOMAIN cols |->
          IF cols[c] \in Range(df.cols) THEN df.rows[r][IndexOf(df.cols, cols[c])] ELSE NaN]]

RECURSIVE ConcatRows(_, _)
ConcatRows(dfs, cols) ==
    IF dfs = <<>> THEN <<>>
    ELSE Reindexed(Head(dfs), cols) \o ConcatRows(Tail(dfs), cols)

RECURSIVE Distinct(_)
Distinct(rows) ==
    IF rows = <<>> THEN <<>>
    ELSE LET rest == Distinct(SubSeq(rows, 1, Len(rows) - 1))
         IN  IF rows[Len(rows)] \in Range(rest) THEN rest ELSE Append(rest, rows[Len(rows)])

\* a concatenation that drops the rows it has already seen
pd_concat_Deduplicated(dfs) ==
    [cols |-> UnionColumns(dfs), rows |-> Distinct(ConcatRows(dfs, UnionColumns(dfs)))]

\* pd.concat(dataframes, ignore_index=True)
pd_concat(dfs) == [cols |-> UnionColumns(dfs), rows |-> ConcatRows(dfs, UnionColumns(dfs))]

CsvNames(listing) == SelectSeq(listing, EndsWithCsv)

Dataframes(d, listing) ==
    [j \in DOMAIN CsvNames(listing) |-> read_csv(d[CsvNames(listing)[j]], "utf-8")]

Written(file) == [ino |-> file.ino, cols |-> file.cols, rows |-> file.rows, exists |-> TRUE]

-----------------------------------------------------------------------------
(* The sanitizer cell *)
chars_to_remove == <<194, 195>>

\* only the first occurrence is removed
Replace_First(x, char) ==
    IF char \in Range(x) THEN WithoutIndex(x, IndexOf(x, char)) ELSE x

\* x.replace(char, '') for one character
Replace(x, char) == SelectSeq(x, LAMBDA c : c # char)

RECURSIVE ReplaceEach(_, _)
ReplaceEach(x, chars) ==
    IF chars = <<>> THEN x ELSE ReplaceEach(Replace(x, Head(chars)), Tail(chars))

clean_text(x, chars) == IF x.t = "str" THEN StrCell(ReplaceEach(x.v, chars)) ELSE x

\* df.applymap(lambda x: clean_text(x, chars_to_remove))
applymap_clean(df) ==
    [cols |-> df.cols,
     rows |-> [r \in DOMAIN df.rows |->
                 [c \in DOMAIN df.rows[r] |-> clean_text(df.rows[r][c], chars_to_remove)]]]

-----------------------------------------------------------------------------
(* The monthly files the council published, as bytes.  Headers differ over *)
(* the years; a pound sign is the byte A3 in a Latin-1 file and the bytes  *)
(* C2 A3 in a UTF-8 file.                                                  *)
NewHeader == <<"Supplier", "Description 1", "Description 2", "Description 3", "Pay Date", "Amount">>

RawDated ==
    [cols |-> NewHeader,
     rows |-> << <<(<<65, 194, 163>>), <<66>>, <<>>, <<>>, <<49, 47, 50>>, <<53>> >>,
                 <<(<<65>>), <<66>>, <<>>, <<>>, <<49, 47, 50>>, <<55>> >> >>]

RawUndated ==
    [cols |-> <<"Supplier", "Description 1", "Description 2", "Description 3", "Amount">>,
     rows |-> << <<(<<65, 163>>), <<66>>, <<>>, <<>>, <<53>> >> >>]

RawRef ==
    [cols |-> NewHeader \o <<"Ref">>,
     rows |-> << <<(<<65>>), <<66>>, <<>>, <<>>, <<49, 47, 50>>, <<53>>, <<57>> >> >>]

RawOld ==
    [cols |-> <<"Name", "Description Line 1", "Description Line 2", "Description Line 3",
                "Pay Date", "Amount">>,
     rows |-> << <<(<<233>>), <<66>>, <<>>, <<>>, <<49, 47, 50>>, <<53, 45>> >> >>]

RawShort ==
    [cols |-> <<"Body Name", "Body", "Name", "Description Line 1", "Description Line 2",
                "Amount">>,
     rows |-> << <<(<<88>>), <<89>>, <<65>>, <<66>>, <<>>, <<53>> >> >>]

RawFiles == {RawDated, RawUndated, RawShort}

\* the three files of the end-to-end scenario
ScenarioFiles == {RawUndated, RawRef, RawOld}

OnDisk(raw, ino) == [ino |-> ino, cols |-> raw.cols, rows |-> raw.rows]

\* the numbered files n.csv, n in numbers, the j-th smallest holding pick[j] under inode j
Directory(numbers, pick) ==
    [nm \in {NumberedName(n) : n \in numbers} |->
       LET n == ToInt(Stem(nm))
           j == Cardinality({m \in numbers : m <= n})
       IN  OnDisk(pick[j], j)]

-----------------------------------------------------------------------------
(* Initial states *)
FetchIdle ==
    /\ links = <<>>
    /\ k = 0
    /\ i = 0
    /\ staging = <<>>
    /\ errors = <<>>

TextIdle ==
    /\ cell = NaN
    /\ cleaned = NaN

PipeStart ==
    /\ pc = "idle"
    /\ file_list = <<>>
    /\ start_month = 0
    /\ start_year = 0
    /\ pos = 0
    /\ orig = dir
    /\ renamed = <<>>
    /\ flagged = {}
    /\ inserted = {}
    /\ normRuns = 0
    /\ vreport = NotRun
    /\ combined = Absent
    /\ final = Absent
    /\ runs = 0

\* the working directory holds the downloads 0.csv .. (n-1).csv
Init ==
    /\ \E n \in 1..MaxFiles : \E pick \in [1..n -> RawFiles] :
          dir = Directory(0..(n - 1), pick)
    /\ anchor = <<ANCHOR_YEAR, ANCHOR_MONTH>>
    /\ PipeStart
    /\ FetchIdle
    /\ TextIdle

-----------------------------------------------------------------------------
(* The rename cell *)
RenameStartCell ==
    /\ pc = "idle"
    /\ \E listing \in Orders(DOMAIN dir) : file_list' = natsorted(listing)
    /\ start_year' = anchor[1]
    /\ start_month' = anchor[2]
    /\ pos' = 0
    /\ renamed' = <<>>
    /\ pc' = "rename"
    /\ runs' = runs + 1
    /\ UNCHANGED <<dir, anchor, orig, flagged, inserted, normRuns, vreport, combined, final>>
    /\ UNCHANGED <<fetchVars, textVars>>

\* the cell is started any time while the budget of cell runs lasts
RenameStart == runs < MaxRuns /\ RenameStartCell

\* start_month = start_month - 1, and the year rolls over at month 0
NextMonth(month) == IF month - 1 = 0 THEN 12 ELSE month - 1
\* the year is never decremented
NextYear_Forgets(year, month) == year

NextYear(year, month) == IF month - 1 = 0 THEN year - 1 ELSE year

\* os.rename(src, dst) where it replaces what dst named
Renamed(d, src, dst) ==
    [nm \in (DOMAIN d \ {src}) \cup {dst} |-> IF nm = dst THEN d[src] ELSE d[nm]]

Advance ==
    /\ start_month' = NextMonth(start_month)
    /\ start_year' = NextYear(start_year, start_month)
    /\ pos' = pos + 1
    /\ pc' = IF pos + 1 = Len(file_list) THEN "idle" ELSE "rename"

RenameStep ==
    /\ pc = "rename"
    /\ pos < Len(file_list)
    /\ LET filename == file_list[pos + 1]
           target == Label(start_year, start_month)
       IN  \/ \* POSIX: a file that had the target name is replaced
              /\ dir' = Renamed(dir, filename, target)
              /\ renamed' = Append(renamed, <<filename, target>>)
              /\ Advance
           \/ \* Windows: FileExistsError ends the cell
              /\ target \in DOMAIN dir /\ target # filename
              /\ pc' = "idle"
              /\ UNCHANGED <<dir, renamed, start_month, start_year, pos>>
    /\ UNCHANGED <<file_list, anchor, orig, flagged, inserted, normRuns, vreport, combined,
                   final, runs>>
    /\ UNCHANGED <<fetchVars, textVars>>

\* the kernel is interrupted, or the process killed, between two renames
Interrupt ==
    /\ pc = "rename"
    /\ pc' = "idle"
    /\ UNCHANGED <<dir, file_list, start_month, start_year, pos, anchor, orig, renamed, flagged,
                   inserted, normRuns, vreport, combined, final, runs>>
    /\ UNCHANGED <<fetchVars, textVars>>

-----------------------------------------------------------------------------
(* The normalization cell: every .csv file of the directory is read,       *)
(* changed and written back under its own name.                            *)
NormalizeCell ==
    /\ pc = "idle"
    /\ dir' = [nm \in DOMAIN dir |->
                 IF EndsWithCsv(nm) THEN NormalizedFile(nm, dir[nm]) ELSE dir[nm]]
    /\ flagged' = {nm \in DOMAIN dir : EndsWithCsv(nm) /\ Flags(NormalizedFrame(nm, dir[nm]))}
    /\ inserted' = inserted \cup
                   {dir[nm].ino : nm \in {x \in DOMAIN dir :
                        EndsWithCsv(x) /\ NeedsPayDate(RenameAll(read_csv(dir[x], "latin"),
                                                                 rename_columns))}}
    /\ normRuns' = normRuns + 1
    /\ runs' = runs + 1
    /\ UNCHANGED <<pc, file_list, start_month, start_year, pos, anchor, orig, renamed, vreport,
                   combined, final>>
    /\ UNCHANGED <<fetchVars, textVars>>

Normalize == runs < MaxRuns /\ NormalizeCell

(* The column check cell.  Where exit() raises SystemExit the process is   *)
(* over and no later cell runs.                                            *)
ValidateCell ==
    /\ pc = "idle"
    /\ \E listing \in Orders(DOMAIN dir) : \E mode \in ExitModes :
          /\ vreport' = column_check(dir, sorted(listing), mode)
          /\ pc' = IF mode = "raises" /\ vreport'.mismatches # <<>> THEN "exited" ELSE pc
    /\ runs' = runs + 1
    /\ UNCHANGED <<dir, file_list, start_month, start_year, pos, anchor, orig, renamed,
                   flagged, inserted, normRuns, combined, final>>
    /\ UNCHANGED <<fetchVars, textVars>>

Validate == runs < MaxRuns /\ ValidateCell

(* The combine cell: the files in the order os.listdir gives them; a file  *)
(* that is not UTF-8 raises UnicodeDecodeError and nothing is written.     *)
CombineCell ==
    /\ pc = "idle"
    /\ \E listing \in Orders(DOMAIN dir) :
          IF \A j \in DOMAIN CsvNames(listing) : Decodable(dir[CsvNames(listing)[j]], "utf-8")
          THEN combined' = Written(to_csv(pd_concat(Dataframes(dir, listing)), 0))
          ELSE combined' = combined
    /\ runs' = runs + 1
    /\ UNCHANGED <<dir, pc, file_list, start_month, start_year, pos, anchor, orig, renamed,
                   flagged, inserted, normRuns, vreport, final>>
    /\ UNCHANGED <<fetchVars, textVars>>

Combine == runs < MaxRuns /\ CombineCell

(* The sanitizer cell *)
SanitizeCell ==
    /\ pc = "idle"
    /\ combined.exists
    /\ final' = Written(to_csv(applymap_clean(read_csv(combined, "utf-8")), 0))
    /\ runs' = runs + 1
    /\ UNCHANGED <<dir, pc, file_list, start_month, start_year, pos, anchor, orig, renamed,
                   flagged, inserted, normRuns, vreport, combined>>
    /\ UNCHANGED <<fetchVars, textVars>>

Sanitize == runs < MaxRuns /\ SanitizeCell

Next ==
    \/ RenameStart
    \/ RenameStep
    \/ Interrupt
    \/ Normalize
    \/ Validate
    \/ Combine
    \/ Sanitize

Spec == Init /\ [][Next]_vars

\* the end-to-end scenario: its three files, downloaded in any order
InitScenario ==
    /\ \E pick \in {p \in [1..3 -> ScenarioFiles] : Range(p) = ScenarioFiles} :
          dir = Directory(0..2, pick)
    /\ anchor = <<ANCHOR_YEAR, ANCHOR_MONTH>>
    /\ PipeStart
    /\ FetchIdle
    /\ TextIdle

SpecScenario == InitScenario /\ [][Next]_vars

-----------------------------------------------------------------------------
(* The two cells after the sanitizer.  Both read bristol_spending_data.csv, *)
(* the combined dataset, not the sanitized one.                            *)

\* df[column] = df[column].replace(old, new): the cells that are old, as a whole
SeriesReplace(df, column, old, new) ==
    [cols |-> df.cols,
     rows |-> [r \in DOMAIN df.rows |->
                 [c \in DOMAIN df.rows[r] |->
                    IF df.cols[c] = column /\ df.rows[r][c] = StrCell(old)
                    THEN StrCell(new)
                    ELSE df.rows[r][c]]]]

\* the quote-stripping cell; df['Amount'] raises KeyError without such a column
QuoteStripCell ==
    /\ pc = "idle"
    /\ combined.exists
    /\ final' = IF "Amount" \in Range(combined.cols)
                THEN Written(to_csv(SeriesReplace(read_csv(combined, "utf-8"),
                                                  "Amount", <<34>>, <<>>), 0))
                ELSE final
    /\ runs' = runs + 1
    /\ UNCHANGED <<dir, pc, file_list, start_month, start_year, pos, anchor, orig, renamed,
                   flagged, inserted, normRuns, vreport, combined>>
    /\ UNCHANGED <<fetchVars, textVars>>

\* the sign-normalization cell: df.num raises AttributeError, and its to_csv is a comment
SignCell ==
    /\ pc = "idle"
    /\ combined.exists
    /\ runs' = runs + 1
    /\ UNCHANGED <<dir, pc, file_list, start_month, start_year, pos, anchor, orig, renamed,
                   flagged, inserted, normRuns, vreport, combined, final>>
    /\ UNCHANGED <<fetchVars, textVars>>

-----------------------------------------------------------------------------
(* The notebook run from top to bottom, each cell once, over the downloads *)
(* 0.csv .. (n-1).csv.  The download cell is switched off in the source.   *)
RawIndexed ==
    [cols |-> <<"Unnamed: 0">> \o NewHeader,
     rows |-> << <<(<<48>>), <<65>>, <<66>>, <<>>, <<>>, <<49, 47, 50>>, <<53>> >> >>]

RunAllFiles == RawFiles \cup ScenarioFiles \cup {RawIndexed}

InitRunAll ==
    /\ \E n \in 1..MaxFiles : \E pick \in [1..n -> RunAllFiles] :
          dir = Directory(0..(n - 1), pick)
    /\ anchor = <<ANCHOR_YEAR, ANCHOR_MONTH>>
    /\ PipeStart
    /\ FetchIdle
    /\ TextIdle

RunRename == runs = 0 /\ RenameStartCell
RunNormalize == runs = 1 /\ NormalizeCell
RunValidate == runs = 2 /\ ValidateCell
RunCombine == runs = 3 /\ CombineCell
RunSanitize == runs = 4 /\ SanitizeCell
RunQuoteStrip == runs = 5 /\ QuoteStripCell
RunSign == runs = 6 /\ SignCell

NextRunAll ==
    \/ RunRename
    \/ RenameStep
    \/ RunNormalize
    \/ RunValidate
    \/ RunCombine
    \/ RunSanitize
    \/ RunQuoteStrip
    \/ RunSign

SpecRunAll == InitRunAll /\ [][NextRunAll]_vars

\* the numbers of the downloads that the rename cell may find: one digit and two
Numbers == (0..2) \cup ((MaxNumber - 1)..MaxNumber)

\* the rename cell alone: any few numbered files under the anchor of the source, and
\* the downloads 0.csv .. (n-1).csv under any anchor month
InitRename ==
    /\ \/ /\ \E numbers \in {S \in SUBSET Numbers : Cardinality(S) \in 1..MaxNumbered} :
                dir = Directory(numbers, [j \in 1..Cardinality(numbers) |-> RawDated])
          /\ anchor = <<ANCHOR_YEAR, ANCHOR_MONTH>>
       \/ /\ \E n \in 1..MaxNumbered : dir = Directory(0..(n - 1), [j \in 1..n |-> RawDated])
          /\ \E month \in 1..12 : anchor = <<ANCHOR_YEAR, month>>
    /\ PipeStart
    /\ FetchIdle
    /\ TextIdle

NextRename ==
    \/ RenameStart
    \/ RenameStep
    \/ Interrupt

SpecRename == InitRename /\ [][NextRename]_vars

-----------------------------------------------------------------------------
(* The download cell.  requests.get raises on a network error; a response  *)
(* with an error status is returned like any other (the cell never looks   *)
(* at the status and never calls raise_for_status).  open(..., "wb")       *)
(* creates or empties the file before f.write, which raises when the disk  *)
(* is full.                                                                *)
Outcomes == {"ok", "status", "raises", "writefails"}

\* file_response.content of link number n
Content(n, outcome) ==
    [link |-> n,
     body |-> IF outcome = "ok" THEN "csv"
              ELSE IF outcome = "writefails" THEN "cut short"
              ELSE "error page"]

Saved(d, name, content) ==
    [nm \in DOMAIN d \cup {name} |-> IF nm = name THEN content ELSE d[nm]]

InitFetch ==
    /\ links \in UNION {[1..n -> Outcomes] : n \in 0..MaxLinks}
    /\ k = 0
    /\ i = 0
    /\ staging = <<>>
    /\ errors = <<>>
    /\ dir = <<>>
    /\ anchor = <<ANCHOR_YEAR, ANCHOR_MONTH>>
    /\ PipeStart
    /\ TextIdle

Download ==
    /\ k < Len(links)
    /\ \/ /\ links[k + 1] = "raises"
          /\ errors' = Append(errors, k + 1)
          /\ UNCHANGED <<staging, i>>
       \/ /\ links[k + 1] = "writefails"
          /\ staging' = Saved(staging, NumberedName(i), Content(k + 1, links[k + 1]))
          /\ errors' = Append(errors, k + 1)
          /\ UNCHANGED i
       \/ /\ links[k + 1] \in {"ok", "status"}
          /\ staging' = Saved(staging, NumberedName(i), Content(k + 1, links[k + 1]))
          /\ i' = i + 1
          /\ UNCHANGED errors
    /\ k' = k + 1
    /\ UNCHANGED <<links, pipeVars, textVars>>

SpecFetch == InitFetch /\ [][Download]_vars

-----------------------------------------------------------------------------
(* clean_text on one value *)
TextAlphabet == {70, 111, 194, 195}

FooBar == <<70, 111, 111, 194, 66, 97, 114>>

Strings == UNION {[1..n -> TextAlphabet] : n \in 0..MaxStrLen} \cup {FooBar}

Values == {StrCell(x) : x \in Strings} \cup {NumCell(n) : n \in 0..2} \cup {NaN}

NotCleaned == [t |-> "none", v |-> <<>>]

InitText ==
    /\ cell \in Values
    /\ cleaned = NotCleaned
    /\ dir = <<>>
    /\ anchor = <<ANCHOR_YEAR, ANCHOR_MONTH>>
    /\ PipeStart
    /\ FetchIdle

Clean ==
    /\ cleaned = NotCleaned
    /\ cleaned' = clean_text(cell, chars_to_remove)
    /\ UNCHANGED <<cell, pipeVars, fetchVars>>

SpecText == InitText /\ [][Clean]_vars

-----------------------------------------------------------------------------
(* Properties of the rename cell *)

\* the (year, month) that lies n months before (year, month)
MonthsBefore(year, month, n) ==
    LET t == year * 12 + (month - 1) - n IN <<t \div 12, (t % 12) + 1>>

NumberOf(name) == ToInt(Stem(name))

\* the file of d with exactly j - 1 files of a smaller number
NthNumbered(d, j) ==
    CHOOSE nm \in DOMAIN d :
        Cardinality({other \in DOMAIN d : NumberOf(other) < NumberOf(nm)}) = j - 1

LabelYear(label) == ToInt(SubSeq(label, 1, IndexOf(label, 45) - 1))
LabelMonth(label) == ToInt(SubSeq(label, IndexOf(label, 45) + 1, LastDot(label) - 1))

Name_2023_2 == <<50, 48, 50, 51, 45, 50, 46, 99, 115, 118>>
Name_2023_1 == <<50, 48, 50, 51, 45, 49, 46, 99, 115, 118>>
Name_2022_12 == <<50, 48, 50, 50, 45, 49, 50, 46, 99, 115, 118>>
Name_1 == <<49, 46, 99, 115, 118>>
Name_2 == <<50, 46, 99, 115, 118>>
Name_10 == <<49, 48, 46, 99, 115, 118>>

\* C1: in the first run over numbered files, the N-th file in numeric order of the
\* original names gets the label {year}-{month}.csv of the month N-1 months before the
\* anchor (month 0 wraps to 12 of the year before); the labels are pairwise distinct,
\* strictly decreasing in time, with months in 1..12; anchor (2023, 2) and 3 files give
\* 2023-2, 2023-1, 2022-12.
C1_Chronology ==
    runs = 1 =>
      /\ \A j \in 1..Len(renamed) :
            LET ym == MonthsBefore(anchor[1], anchor[2], j - 1)
                old == NthNumbered(orig, j)
                new == renamed[j][2]
            IN  /\ renamed[j][1] = old
                /\ new = Label(ym[1], ym[2])
                /\ LabelMonth(new) \in 1..12
                /\ new \in DOMAIN dir
                /\ dir[new].ino = orig[old].ino
      /\ \A a, b \in 1..Len(renamed) :
            a < b => /\ renamed[a][2] # renamed[b][2]
                     /\ LabelYear(renamed[a][2]) * 12 + LabelMonth(renamed[a][2])
                          > LabelYear(renamed[b][2]) * 12 + LabelMonth(renamed[b][2])
      /\ (anchor = <<2023, 2>> /\ Len(renamed) = 3) =>
            <<renamed[1][2], renamed[2][2], renamed[3][2]>>
               = <<Name_2023_2, Name_2023_1, Name_2022_12>>

C1_Witness ==
    /\ runs = 1
    /\ pc = "idle"
    /\ anchor = <<2023, 2>>
    /\ Len(renamed) = 3
    /\ DOMAIN dir = {Name_2023_2, Name_2023_1, Name_2022_12}
    /\ dir[Name_2022_12].ino = 3

\* C7: the rename cell takes the numbered files in numeric order of their names:
\* a.csv comes before b.csv in its list whenever a < b, and 2.csv, 10.csv, 1.csv are
\* taken as 1.csv, 2.csv, 10.csv.
C7_NaturalOrder ==
    (runs = 1 /\ pc = "rename") =>
      /\ Range(file_list) = DOMAIN orig
      /\ \A a, b \in 1..Len(file_list) :
            NumberOf(file_list[a]) < NumberOf(file_list[b]) => a < b
      /\ DOMAIN orig = {Name_2, Name_10, Name_1} => file_list = <<Name_1, Name_2, Name_10>>

C7_Witness ==
    /\ runs = 1
    /\ pc = "rename"
    /\ pos = 0
    /\ DOMAIN orig = {Name_2, Name_10, Name_1}
    /\ file_list = <<Name_1, Name_2, Name_10>>

-----------------------------------------------------------------------------
(* Properties of the cells over the working directory *)

AnOrder(S) == CHOOSE s \in Orders(S) : TRUE

SumRows(d) == SeqSum([j \in 1..Cardinality(DOMAIN d) |-> Len(d[AnOrder(DOMAIN d)[j]].rows)])

\* C2: whenever the combine cell writes bristol_spending_data.csv, its row count is the
\* sum of the row counts of the files of the working directory, whatever their columns.
C2_RowCount ==
    [][combined' # combined => Len(combined'.rows) = SumRows(dir)]_vars

C2_Witness ==
    /\ combined.exists
    /\ Cardinality({dir[nm].cols : nm \in DOMAIN dir}) > 1
    /\ Len(combined.cols) > Len(NewHeader)
    /\ Len(combined.rows) >= 3
    /\ Len(combined.rows) = SumRows(dir)

\* the names of d in plain sorted order
SortedNames(d) == sorted(AnOrder(DOMAIN d))

\* the positions, in sorted order, of the files whose columns differ from the first file's
Mismatching(d) ==
    {j \in 2..Len(SortedNames(d)) : d[SortedNames(d)[j]].cols # d[SortedNames(d)[1]].cols}

FirstOf(S) == CHOOSE j \in S : \A h \in S : j <= h

\* C3: a run of the column check cell that reads all its files prints 'all columns
\* match!' exactly when every other file has the columns of the first file in sorted
\* order; otherwise it prints the first mismatching file name only, and no success; it
\* changes no file.
C3_FailFast ==
    [][(vreport' # vreport /\ ~vreport'.raised) =>
         /\ vreport'.success <=> Mismatching(dir) = {}
         /\ Mismatching(dir) # {} =>
               vreport'.mismatches = <<SortedNames(dir)[FirstOf(Mismatching(dir))]>>
         /\ dir' = dir]_vars

\* C4: a second run of the normalization cell leaves the columns and the rows of
\* every file as the first run wrote them.
C4_Idempotent ==
    [][(normRuns >= 1 /\ normRuns' = normRuns + 1) =>
         \A nm \in DOMAIN dir : /\ dir'[nm].cols = dir[nm].cols
                                /\ dir'[nm].rows = dir[nm].rows]_vars

\* C9: the working directory always holds as many files as at the start, and every
\* file it held is still there under some name.
C9_NoFileLost ==
    /\ Cardinality(DOMAIN dir) = Cardinality(DOMAIN orig)
    /\ {dir[nm].ino : nm \in DOMAIN dir} = {orig[nm].ino : nm \in DOMAIN orig}

\* the name the rename table gives a column
Canonical(col) ==
    IF \E j \in DOMAIN rename_columns : rename_columns[j][1] = col
    THEN rename_columns[CHOOSE j \in DOMAIN rename_columns : rename_columns[j][1] = col][2]
    ELSE col

\* the columns of cols, under their new names, that are neither dropped nor the date
Kept(cols) ==
    SelectSeq([j \in DOMAIN cols |-> Canonical(cols[j])],
              LAMBDA c : c \notin Range(del_columns) /\ c # "Pay Date")

\* C10 as stated: after a run of the normalization cell, every file whose columns are
\* not the canonical list, in its order, has been flagged.
C10_FlagsNonCanonical ==
    [][normRuns' = normRuns + 1 =>
         \A nm \in DOMAIN dir' : dir'[nm].cols # NewHeader => nm \in flagged']_vars

\* C10, amended: after a run of the normalization cell, the flagged files are exactly
\* those whose column count is not 6 (a file with 6 columns of other names or another
\* order is not flagged), and a flagged file is written with its own columns in their
\* own order: none added, none moved.
C10_FlagsByCount ==
    [][normRuns' = normRuns + 1 =>
         \A nm \in DOMAIN dir' :
            /\ nm \in flagged' <=> Len(dir'[nm].cols) # EXPECTED_COLUMNS
            /\ nm \in flagged' =>
                 SelectSeq(dir'[nm].cols, LAMBDA c : c # "Pay Date") = Kept(dir[nm].cols)]_vars

C10_Witness ==
    /\ normRuns = 1
    /\ runs = 1
    /\ flagged # {}
    /\ \E nm \in DOMAIN dir \ flagged :
          Len(dir[nm].cols) = EXPECTED_COLUMNS /\ dir[nm].cols # NewHeader

-----------------------------------------------------------------------------
(* The end-to-end scenario *)

Undated == <<"Supplier", "Description 1", "Pay Date", "Description 2", "Description 3", "Amount">>

\* C5 as stated: once normalized, the three files have the canonical ordered list, the
\* inserted 'Pay Date' column standing where an original one stands.
C5_AllCanonical ==
    normRuns >= 1 => \A nm \in DOMAIN dir : dir[nm].cols = NewHeader

\* C5, amended: once normalized, the three files have 6 columns of the same six names;
\* the two that had a 'Pay Date' column have the canonical ordered list; the one that
\* had none has 'Pay Date' at index 2, where it was inserted, and not the canonical
\* order.  A column check over a file of each kind reports a mismatch; the combine cell
\* writes a dataset of 6 columns.
C5_Scenario ==
    /\ [](normRuns >= 1 =>
            \A nm \in DOMAIN dir :
               /\ Len(dir[nm].cols) = EXPECTED_COLUMNS
               /\ Range(dir[nm].cols) = Range(NewHeader)
               /\ dir[nm].ino \notin inserted => dir[nm].cols = NewHeader
               /\ dir[nm].ino \in inserted =>
                     /\ IndexOf(dir[nm].cols, "Pay Date") = PAY_DATE_INDEX + 1
                     /\ dir[nm].cols = Undated)
    /\ [][(/\ normRuns >= 1
            /\ vreport' # vreport
            /\ \E a, b \in DOMAIN dir : dir[a].ino \in inserted /\ dir[b].ino \notin inserted)
           => vreport'.mismatches # <<>>]_vars
    /\ [][(normRuns >= 1 /\ combined' # combined)
           => Len(combined'.cols) = EXPECTED_COLUMNS]_vars

C5_Witness ==
    /\ normRuns = 1
    /\ Cardinality(DOMAIN dir) = 3
    /\ \A nm \in DOMAIN dir : Len(dir[nm].cols) = EXPECTED_COLUMNS
    /\ \E nm \in DOMAIN dir : dir[nm].ino \in inserted /\ dir[nm].cols = Undated
    /\ vreport.ran /\ vreport.mismatches # <<>>
    /\ combined.exists /\ Len(combined.cols) = EXPECTED_COLUMNS /\ Len(combined.rows) = 3

-----------------------------------------------------------------------------
(* clean_text *)

Denylisted(c) == c = 194 \/ c = 195

\* C6: clean_text gives a text value without its denylisted characters, the others in
\* their order, and gives any other value back as it is; 'FooÂBar' gives 'FooBar'.
C6_CleanText ==
    cleaned # NotCleaned =>
      /\ cell.t = "str" =>
            /\ cleaned.t = "str"
            /\ cleaned.v = SelectSeq(cell.v, LAMBDA c : ~Denylisted(c))
      /\ cell.t # "str" => cleaned = cell
      /\ cell = StrCell(FooBar) => cleaned = StrCell(<<70, 111, 111, 66, 97, 114>>)

C6_Witness ==
    /\ cell = StrCell(FooBar)
    /\ cleaned = StrCell(<<70, 111, 111, 66, 97, 114>>)

-----------------------------------------------------------------------------
(* The download cell *)

\* C8: every link handled so far whose retrieval failed, by an exception or by an error
\* status, is named in an error message and has no file; the loop goes on after it.
C8_FailuresSkipped ==
    /\ \A n \in 1..k :
          links[n] \in {"status", "raises"} =>
            /\ n \in Range(errors)
            /\ \A nm \in DOMAIN staging : staging[nm].link # n
    /\ k < Len(links) => ENABLED Download

-----------------------------------------------------------------------------
(* Properties of the notebook run from top to bottom *)

C12_FinalSanitized ==
    final.exists =>
       \A r \in DOMAIN final.rows : \A c \in DOMAIN final.rows[r] :
          LET x == read_csv(final, "utf-8").rows[r][c]
          IN  x.t = "str" => \A j \in DOMAIN x.v : ~Denylisted(x.v[j])

\* the header of a file once the rename table has been applied
HeaderAfterRename(file) == [j \in DOMAIN file.cols |-> Canonical(file.cols[j])]

NotDropped(col) == col \notin Range(del_columns)

\* the 'Pay Date' cells of a file on disk, row by row
PayDateCells(file) ==
    [r \in DOMAIN file.rows |-> file.rows[r][IndexOf(file.cols, "Pay Date")]]

\* C13: in a run of the normalization cell, a file without a 'Pay Date' column gets one
\* at index 2 of the columns it has then (renamed, nothing dropped yet), so that the
\* written file has it at index 2 when neither of the two columns before it is dropped,
\* and every row of it holds the file name without its extension, which is the
\* {year}-{month} label the rename cell gave; a file with a 'Pay Date' column keeps the
\* values of that column and its place among the columns that are kept.
C13_DateInjection ==
    [][normRuns' = normRuns + 1 =>
         \A nm \in DOMAIN dir :
            LET h == HeaderAfterRename(dir[nm])
            IN  IF "Pay Date" \notin Range(h)
                THEN /\ dir'[nm].cols =
                          SelectSeq(SubSeq(h, 1, PAY_DATE_INDEX) \o <<"Pay Date">>
                                      \o SubSeq(h, PAY_DATE_INDEX + 1, Len(h)), NotDropped)
                     /\ (\A j \in 1..PAY_DATE_INDEX : NotDropped(h[j])) =>
                            dir'[nm].cols[PAY_DATE_INDEX + 1] = "Pay Date"
                     /\ \A r \in DOMAIN dir'[nm].rows :
                            PayDateCells(dir'[nm])[r] = Stem(nm)
                     /\ \E j \in DOMAIN renamed :
                            /\ renamed[j][2] = nm
                            /\ nm = Label(LabelYear(nm), LabelMonth(nm))
                ELSE /\ dir'[nm].cols = SelectSeq(h, NotDropped)
                     /\ PayDateCells(dir'[nm]) = PayDateCells(dir[nm])]_vars

C13_Witness ==
    /\ normRuns = 1
    /\ \E a, b \in DOMAIN dir :
          /\ dir[a].ino \in inserted
          /\ dir[a].cols[PAY_DATE_INDEX + 1] = "Pay Date"
          /\ dir[a].rows[1][PAY_DATE_INDEX + 1] = Stem(a)
          /\ a \in {Name_2023_2, Name_2023_1}
          /\ dir[b].ino \notin inserted
          /\ dir[b].cols = NewHeader
          /\ PayDateCells(dir[b]) = PayDateCells(orig[NthNumbered(orig, dir[b].ino)])

-----------------------------------------------------------------------------
(* The numbering of the downloads *)

\* the links among the first n that were retrieved: a response of a success status,
\* written to its file
Retrieved(n) == {j \in 1..n : links[j] = "ok"}

\* the j-th retrieved link, in the order of the list
NthRetrieved(j) ==
    CHOOSE n \in Retrieved(Len(links)) : Cardinality(Retrieved(n)) = j

\* C14: the counter is the number of links retrieved so far, and once the loop is over
\* the staging files are exactly 0.csv .. (i-1).csv, the file j.csv holding what the
\* (j+1)-th retrieved link gave.
C14_Numbering ==
    /\ i = Cardinality(Retrieved(k))
    /\ k = Len(links) =>
          /\ DOMAIN staging = {NumberedName(j) : j \in 0..(i - 1)}
          /\ \A j \in 0..(i - 1) :
                staging[NumberedName(j)] = Content(NthRetrieved(j + 1), "ok")

-----------------------------------------------------------------------------
(* The flag of the normalization cell *)

\* the columns of a file after the rename, date-insertion and drop steps
ColumnsAfterSteps(file) ==
    LET h == HeaderAfterRename(file)
    IN  SelectSeq(IF "Pay Date" \in Range(h) THEN h
                  ELSE SubSeq(h, 1, PAY_DATE_INDEX) \o <<"Pay Date">>
                         \o SubSeq(h, PAY_DATE_INDEX + 1, Len(h)),
                  NotDropped)

\* C15: a run of the normalization cell prints the name of a file exactly when the file
\* has not 6 columns after the three steps; flagged or not, every file is written back
\* under its name, in place, with the columns it then has and all its rows.  The column
\* check cell later reads a flagged file like any other: it prints its name when its
\* columns differ from the reference, unless the cell has exited at an earlier file; the
\* combine cell puts its rows and its columns into the combined dataset.
C15_FlagOnly ==
    /\ [][normRuns' = normRuns + 1 =>
            /\ DOMAIN dir' = DOMAIN dir
            /\ \A nm \in DOMAIN dir :
                  /\ nm \in flagged' <=> Len(ColumnsAfterSteps(dir[nm])) # EXPECTED_COLUMNS
                  /\ dir'[nm].cols = ColumnsAfterSteps(dir[nm])
                  /\ dir'[nm].ino = dir[nm].ino
                  /\ Len(dir'[nm].rows) = Len(dir[nm].rows)]_vars
    /\ [][(normRuns >= 1 /\ vreport' # vreport) =>
            /\ ~vreport'.raised
            /\ \A nm \in flagged :
                  \/ nm \in Range(vreport'.mismatches)
                  \/ dir[nm].cols = dir[SortedNames(dir)[1]].cols
                  \/ vreport'.mismatches # <<>> /\ pc' = "exited"]_vars
    /\ [][(normRuns >= 1 /\ combined' # combined) =>
            /\ Len(combined'.rows) = SumRows(dir)
            /\ \A nm \in flagged : Range(dir[nm].cols) \subseteq Range(combined'.cols)]_vars

C15_Witness ==
    /\ normRuns = 1
    /\ \E a \in flagged : \E b \in DOMAIN dir \ flagged :
          /\ Len(dir[a].cols) = EXPECTED_COLUMNS - 1
          /\ Len(dir[b].cols) = EXPECTED_COLUMNS
          /\ StrLess(b, a)
          /\ a \in Range(vreport.mismatches)
    /\ combined.exists
    /\ Len(combined.rows) = SumRows(dir)

=============================================================================
